---- MODULE Spec2Model ----
(***************************************************************************)
(* globals-in-loop-check: the detection of module-level names read inside  *)
(* loops and comprehensions (checker.py) and the command line around it    *)
(* (cli.py).                                                               *)
(*                                                                         *)
(* A parsed program is a finite ordered tree.  Nodes are numbered in       *)
(* pre-order (node 1 is the ast.Module), so the children of a node in      *)
(* field order are its children in ascending number.  A node carries the   *)
(* attributes the checker reads: its class (kind), and for an ast.Name its *)
(* id, ctx and lineno.  Nodes the checker never looks at (constants, ctx   *)
(* objects, operators) are leaves that change neither ast.walk's order of  *)
(* the other nodes nor any test of the checker, and are left out; "Other"  *)
(* stands for every inner node class without a visit_ method that is not   *)
(* named below (Expr, Call, If, FunctionDef, Tuple, comprehension, ...).   *)
(***************************************************************************)
EXTENDS Integers, Sequences, FiniteSets, TLC

\* ---------------------------------------------------------------- bounds
\* The largest number of nodes of a program tree, the Module included.
MaxNodes == 5

\* ------------------------------------------------------------ the inputs
\* The node classes with a visit_ method in GlobalUsageChecker.
LoopKinds == {"For", "While", "ListComp", "SetComp", "DictComp"}

\* Comprehension-like expression classes (GeneratorExp has no visit_ method).
CompKinds == {"ListComp", "SetComp", "DictComp", "GeneratorExp"}

\* Statement classes of the model.
StmtKinds == {"Assign", "For", "While", "ClassDef"}

\* A label is what a node carries besides its place in the tree.
Label(k, i, c) == [kind |-> k, id |-> i, ctx |-> c]

\* The labels of the programs handed to GlobalUsageChecker directly: every
\* loop and comprehension class, and reads and writes of one name.
VisitorLabels ==
    {Label(k, "", "") : k \in LoopKinds \cup {"GeneratorExp", "Other"}}
        \cup {Label("Name", "A", "Load"), Label("Name", "A", "Store")}

\* The identifiers a caller may name as globals_defined.
VisitorIds == {"A"}

\* The labels of the files handed to find_globals and analyze_file:
\* assignments, classes (all named C), one loop class, two names, and the
\* other assignment targets (Tuple, List, Attribute, Subscript, Starred),
\* which ast.parse gives Store context like a Name.
FileLabels ==
    {Label(k, "", "") : k \in {"Assign", "For", "Other"}}
        \cup {Label("ClassDef", "C", ""), Label("Other", "", "Store"),
              Label("Name", "A", "Load"), Label("Name", "A", "Store"),
              Label("Name", "B", "Store")}

\* What ast.parse can put under what: a Name is a leaf; the body of a Module
\* or a ClassDef holds statements (a ClassDef also its base-class names);
\* a comprehension and an Assign hold expressions; a While has no target;
\* a target in Store context holds targets and the expressions they index.
ValidChild(pk, l) ==
    CASE pk.kind = "Name"     -> FALSE
      [] pk.kind = "Module"   -> l.ctx = "" /\ l.kind \in StmtKinds \cup {"Other"}
      [] pk.kind = "ClassDef" -> \/ l.ctx = "" /\ l.kind \in StmtKinds \cup {"Other"}
                                 \/ l.kind = "Name" /\ l.ctx = "Load"
      [] pk.kind \in CompKinds -> \/ l.ctx = "" /\ l.kind \in CompKinds \cup {"Other"}
                                  \/ l.kind = "Name" /\ l.ctx = "Load"
      [] pk.kind = "Assign"   -> l.kind \in CompKinds \cup {"Other", "Name"}
      [] pk.kind = "While"    -> l.ctx # "Store"
      [] pk.kind = "Other" /\ pk.ctx = "Store"
                              -> l.kind \in CompKinds \cup {"Other", "Name"}
      [] OTHER                -> TRUE

\* The line of the n-th node in pre-order: lines never decrease along the
\* source, and two neighbouring nodes may share a line.
LineOf(n) == (n + 1) \div 2

Node(l, p, n) == [kind |-> l.kind, id |-> l.id, ctx |-> l.ctx,
                  parent |-> p, lineno |-> LineOf(n)]

ModuleNode == [kind |-> "Module", id |-> "", ctx |-> "", parent |-> 0, lineno |-> 0]

RECURSIVE AncestorsOrSelf(_, _)
AncestorsOrSelf(t, n) ==
    IF n = 0 THEN {} ELSE {n} \cup AncestorsOrSelf(t, t[n].parent)

\* ------------------------------------------------------------- the state
VARIABLES
    source,            \* what reading and parsing the file gives
    pc,                \* which entry point has run
    globals_defined,   \* GlobalUsageChecker.globals_defined
    violations,        \* GlobalUsageChecker.violations: (id, lineno) pairs
    reported,          \* history: the Name nodes behind `violations`, in order
    globals_,          \* the list find_globals returned
    result,            \* the Violation list analyze_file returned
    env,               \* the file system and the working directory
    argv,              \* the arguments main parsed
    paths,             \* scan_paths: the paths it loops over
    project_root,      \* scan_paths: the discovered project root
    ignored_patterns,  \* scan_paths: the ignore patterns built for the root
    idx,               \* scan_paths: the place of raw_path in paths
    scan_violations,   \* scan_paths: its list `violations`
    added,             \* history: what each path of `paths` added to the list
    exit_code          \* what main returned

file_vars == <<source, globals_defined, violations, reported, globals_, result>>

scan_vars == <<env, argv, paths, project_root, ignored_patterns, idx,
               scan_violations, added, exit_code>>

vars == <<pc, file_vars, scan_vars>>

\* ------------------------------------------------------------------- ast
\* ast.iter_child_nodes: the child nodes in field order.
iter_child_nodes(t, n) ==
    LET kids == {i \in 1..Len(t) : t[i].parent = n}
        RECURSIVE asc(_)
        asc(S) == IF S = {} THEN <<>>
                  ELSE LET m == CHOOSE x \in S : \A y \in S : x <= y
                       IN  <<m>> \o asc(S \ {m})
    IN  asc(kids)

\* ast.walk: a deque seeded with the node; popleft, extend with the children.
RECURSIVE walk_todo(_, _)
walk_todo(t, todo) ==
    IF todo = <<>> THEN <<>>
    ELSE <<Head(todo)>> \o walk_todo(t, Tail(todo) \o iter_child_nodes(t, Head(todo)))

\* A walk that takes the nodes depth first instead: a stack for the deque.
RECURSIVE walk_stack(_, _)
walk_stack(t, todo) ==
    IF todo = <<>> THEN <<>>
    ELSE <<Head(todo)>> \o walk_stack(t, iter_child_nodes(t, Head(todo)) \o Tail(todo))

walk_depth_first(t, n) == walk_stack(t, <<n>>)

walk(t, n) == walk_todo(t, <<n>>)

\* ---------------------------------------------------- GlobalUsageChecker
\* The test of a walked node without its isinstance(child.ctx, ast.Load).
IsNameOfGlobal(t, g, c) ==
    t[c].kind = "Name" /\ t[c].id \in g

\* The test _check_loop_body and _check_comp make of every walked node.
IsLoadOfGlobal(t, g, c) ==
    t[c].kind = "Name" /\ t[c].ctx = "Load" /\ t[c].id \in g

\* _check_loop_body: the nodes whose (id, lineno) it appends, in order.
_check_loop_body(t, g, loop_node) ==
    SelectSeq(walk(t, loop_node), LAMBDA c : IsLoadOfGlobal(t, g, c))

\* _check_comp: the same walk for the comprehension classes.
_check_comp(t, g, comp_node) ==
    SelectSeq(walk(t, comp_node), LAMBDA c : IsLoadOfGlobal(t, g, c))

RECURSIVE visit(_, _, _)
RECURSIVE generic_visit_from(_, _, _)

\* NodeVisitor.generic_visit: visit every child node in field order.
generic_visit_from(t, g, kids) ==
    IF kids = <<>> THEN <<>>
    ELSE visit(t, g, Head(kids)) \o generic_visit_from(t, g, Tail(kids))

generic_visit(t, g, n) == generic_visit_from(t, g, iter_child_nodes(t, n))

visit_For(t, g, n) == _check_loop_body(t, g, n) \o generic_visit(t, g, n)

\* A visit_While that forgets its _check_loop_body.
visit_While_unchecked(t, g, n) == generic_visit(t, g, n)

visit_While(t, g, n) == _check_loop_body(t, g, n) \o generic_visit(t, g, n)

visit_ListComp(t, g, n) == _check_comp(t, g, n) \o generic_visit(t, g, n)

visit_SetComp(t, g, n) == _check_comp(t, g, n) \o generic_visit(t, g, n)

visit_DictComp(t, g, n) == _check_comp(t, g, n) \o generic_visit(t, g, n)

\* NodeVisitor.visit: dispatch on the node class, generic_visit by default.
visit(t, g, n) ==
    CASE t[n].kind = "For"      -> visit_For(t, g, n)
      [] t[n].kind = "While"    -> visit_While(t, g, n)
      [] t[n].kind = "ListComp" -> visit_ListComp(t, g, n)
      [] t[n].kind = "SetComp"  -> visit_SetComp(t, g, n)
      [] t[n].kind = "DictComp" -> visit_DictComp(t, g, n)
      [] OTHER                  -> generic_visit(t, g, n)

\* An append that leaves out a pair the list already holds.
Appended_distinct(t, nodes) ==
    LET ps   == [i \in 1..Len(nodes) |-> <<t[nodes[i]].id, t[nodes[i]].lineno>>]
        keep == {i \in 1..Len(nodes) : \A j \in 1..(i - 1) : ps[j] # ps[i]}
    IN  [k \in 1..Cardinality(keep) |->
            ps[CHOOSE i \in keep : Cardinality({j \in keep : j <= i}) = k]]

\* What _check_loop_body appends for a node: (child.id, child.lineno).
Appended(t, nodes) == [i \in 1..Len(nodes) |-> <<t[nodes[i]].id, t[nodes[i]].lineno>>]

\* ---------------------------------------------------------- find_globals
\* Assign.targets: of the children of an Assign, ast.parse gives Store
\* context to the targets and Load context to the value.
targets(t, n) == SelectSeq(iter_child_nodes(t, n), LAMBDA c : t[c].ctx = "Store")

\* The inner loop of find_globals: the ids of the targets that are ast.Name.
NameTargetIds(t, n) ==
    LET names == SelectSeq(targets(t, n), LAMBDA c : t[c].kind = "Name")
    IN  [i \in 1..Len(names) |-> t[names[i]].id]

RECURSIVE find_globals_from(_, _)
find_globals_from(t, body) ==
    IF body = <<>> THEN <<>>
    ELSE (IF t[Head(body)].kind = "Assign" THEN NameTargetIds(t, Head(body)) ELSE <<>>)
             \o find_globals_from(t, Tail(body))

\* A find_globals that takes the assignments of every block of the file.
find_globals_nested(t) == find_globals_from(t, walk(t, 1))

find_globals(t) == find_globals_from(t, iter_child_nodes(t, 1))

SeqToSet(s) == {s[i] : i \in 1..Len(s)}

\* ------------------------------------------------------------- Violation
Violation(path, line, variable) == [path |-> path, line |-> line, variable |-> variable]

\* A format with the other rule code.
format_G002(v) == [path |-> v.path, line |-> v.line, col |-> 1, code |-> "G002",
                   message |-> <<"global variable", v.variable, "used inside a loop">>]

\* Violation.format, field by field: "<path>:<line>:1: G001 global variable
\* '<variable>' used inside a loop".
format(v) == [path |-> v.path, line |-> v.line, col |-> 1, code |-> "G001",
              message |-> <<"global variable", v.variable, "used inside a loop">>]

\* ---------------------------------------------------------- analyze_file
\* The outcome of a call: raised names the exception that leaves it, "" if
\* none does, and violations is the list it returns.
Returned(vs) == [raised |-> "", violations |-> vs]

Raised(e) == [raised |-> e, violations |-> <<>>]

\* An analyze_file that lets the parser's SyntaxError through.
analyze_file_unguarded(path, src) ==
    IF src.status = "OSError" THEN Returned(<<>>)
    ELSE IF src.status = "SyntaxError" THEN Raised("SyntaxError")
    ELSE LET g  == SeqToSet(find_globals(src.tree))
             vs == Appended(src.tree, visit(src.tree, g, 1))
         IN  Returned([i \in 1..Len(vs) |-> Violation(path, vs[i][2], vs[i][1])])

analyze_file(path, src) ==
    IF src.status = "OSError" THEN Returned(<<>>)
    ELSE IF src.status = "SyntaxError" THEN Returned(<<>>)
    ELSE LET g  == SeqToSet(find_globals(src.tree))
             vs == Appended(src.tree, visit(src.tree, g, 1))
         IN  Returned([i \in 1..Len(vs) |-> Violation(path, vs[i][2], vs[i][1])])

\* ------------------------------------------------------------ the runs
FilePath == "mod.py"

\* ast.parse gives some tree of at most k more nodes than t, over the labels
\* L: a tree in pre-order grows by a node under its last node or under one
\* of that node's ancestors.
RECURSIVE Parsed(_, _, _)
Parsed(L, t, k) ==
    \/ source = [status |-> "ok", tree |-> t]
    \/ /\ k > 0
       /\ \E p \in AncestorsOrSelf(t, Len(t)) :
             \E l \in {x \in L : ValidChild(t[p], x)} :
                Parsed(L, Append(t, Node(l, p, Len(t) + 1)), k - 1)

Fresh ==
    /\ pc = "start"
    /\ globals_defined = {}
    /\ violations = <<>>
    /\ reported = <<>>
    /\ globals_ = <<>>
    /\ result = <<>>

\* No scan is under way.
NoScan ==
    /\ env = [files |-> {}, markers |-> {}, gitignore |-> {}, cwd |-> <<>>]
    /\ argv = [paths |-> <<>>, no_gitignore |-> FALSE]
    /\ paths = <<>>
    /\ project_root = <<>>
    /\ ignored_patterns = {}
    /\ idx = 0
    /\ scan_violations = <<>>
    /\ added = <<>>
    /\ exit_code = -1

\* A source: a program over either set of labels, or a file that cannot be
\* read or parsed.
Init ==
    /\ \/ Parsed(VisitorLabels, <<ModuleNode>>, MaxNodes - 1)
       \/ Parsed(FileLabels, <<ModuleNode>>, MaxNodes - 1)
       \/ \E s \in {"OSError", "SyntaxError"} : source = [status |-> s, tree |-> <<>>]
    /\ Fresh
    /\ NoScan

\* checker = GlobalUsageChecker(g); checker.visit(tree)
CheckerVisit ==
    /\ pc = "start"
    /\ source.status = "ok"
    /\ \E g \in SUBSET VisitorIds :
          /\ globals_defined' = g
          /\ reported' = visit(source.tree, g, 1)
          /\ violations' = Appended(source.tree, visit(source.tree, g, 1))
    /\ pc' = "visited"
    /\ UNCHANGED <<source, globals_, result, scan_vars>>

\* find_globals(tree)
FindGlobals ==
    /\ pc = "start"
    /\ source.status = "ok"
    /\ globals_' = find_globals(source.tree)
    /\ pc' = "found"
    /\ UNCHANGED <<source, globals_defined, violations, reported, result, scan_vars>>

\* analyze_file(path); the checker it builds is kept beside its result.
AnalyzeFile ==
    /\ pc = "start"
    /\ LET r == analyze_file(FilePath, source)
       IN  /\ result' = r.violations
           /\ pc' = IF r.raised = "" THEN "analyzed" ELSE "raised"
    /\ IF source.status = "ok"
       THEN /\ globals_' = find_globals(source.tree)
            /\ globals_defined' = SeqToSet(find_globals(source.tree))
            /\ reported' = visit(source.tree, SeqToSet(find_globals(source.tree)), 1)
            /\ violations' = Appended(source.tree, reported')
       ELSE UNCHANGED <<globals_, globals_defined, reported, violations>>
    /\ UNCHANGED <<source, scan_vars>>

Next == CheckerVisit \/ FindGlobals \/ AnalyzeFile

Spec == Init /\ [][Next]_vars

\* ================================================================ paths
\* A path is the sequence of its components below "/"; no component is a
\* symbolic link, so Path.resolve leaves an absolute path as it is.
\* The project markers of _discover_project_root are kept as the set
\* env.markers of the directories that hold one.

\* The largest number of path arguments on the command line.
MaxArgs == 2

\* The deepest directory of the file system.
MaxDepth == 2

DirNames == {"proj", "venv", "site-packages"}

FileNames == {"app.py", ".py", "notes.txt"}

\* The characters of the file names of the model.
Chars(name) ==
    CASE name = "app.py"    -> <<"a", "p", "p", ".", "p", "y">>
      [] name = "main.py"   -> <<"m", "a", "i", "n", ".", "p", "y">>
      [] name = ".py"       -> <<".", "p", "y">>
      [] name = "notes.txt" -> <<"n", "o", "t", "e", "s", ".", "t", "x", "t">>

DotPy == <<".", "p", "y">>

\* The order in which a directory lists its entries (os.walk gives them in
\* the file system's order; the model fixes one).
NameOrder == <<".py", "app.py", "main.py", "notes.txt", "proj", "site-packages", "venv">>

RECURSIVE PathsUpTo(_)
PathsUpTo(d) ==
    IF d = 0 THEN {<<>>}
    ELSE PathsUpTo(d - 1) \cup {Append(q, n) : q \in PathsUpTo(d - 1), n \in DirNames}

\* Every directory of the model exists.
Dirs == PathsUpTo(MaxDepth)

IsPrefix(q, r) == Len(q) <= Len(r) /\ SubSeq(r, 1, Len(q)) = q

\* Path(raw_path).resolve(): a relative path is taken from the working
\* directory.
resolve(e, raw) == IF raw.absolute THEN raw.parts ELSE e.cwd \o raw.parts

PathOf(f) == Append(f.dir, f.name)

is_dir(e, q) == q \in Dirs

is_file(e, q) == \E f \in e.files : PathOf(f) = q

exists(e, q) == is_dir(e, q) \/ is_file(e, q)

FileAt(e, q) == CHOOSE f \in e.files : PathOf(f) = q

\* Path.name: the last component, "" for the root.
name(q) == IF q = <<>> THEN <<>> ELSE <<q[Len(q)]>>

\* str.rfind over the characters, counted from 1; 0 if there is none.
RFind(cs, ch) ==
    LET S == {i \in 1..Len(cs) : cs[i] = ch}
    IN  IF S = {} THEN 0 ELSE CHOOSE i \in S : \A j \in S : j <= i

\* PurePath.suffix: from the last dot, unless the name starts or ends with it.
suffix(n) ==
    LET cs == Chars(n)
        i  == RFind(cs, ".")
    IN  IF 1 < i /\ i < Len(cs) THEN SubSeq(cs, i, Len(cs)) ELSE <<>>

\* str.endswith
endswith(n, suf) ==
    LET cs == Chars(n)
    IN  Len(suf) <= Len(cs) /\ SubSeq(cs, Len(cs) - Len(suf) + 1, Len(cs)) = suf

\* os.path.relpath(path, start): up from start to the common prefix ("..")
\* and down to path; "." if they are the same.
RECURSIVE CommonLen(_, _)
CommonLen(q, r) ==
    IF q # <<>> /\ r # <<>> /\ Head(q) = Head(r)
    THEN 1 + CommonLen(Tail(q), Tail(r)) ELSE 0

relpath(q, start) ==
    LET k == CommonLen(q, start)
        rel == [i \in 1..(Len(start) - k) |-> ".."] \o SubSeq(q, k + 1, Len(q))
    IN  IF rel = <<>> THEN <<".">> ELSE rel

\* The characters of a relative path as the tokens of the model: its
\* components with "/" between them.
RECURSIVE Joined(_)
Joined(parts) ==
    IF parts = <<>> THEN <<>>
    ELSE IF Len(parts) = 1 THEN parts
    ELSE <<Head(parts), "/">> \o Joined(Tail(parts))

\* str.rstrip("/") and str.strip("/") over tokens.
RECURSIVE rstrip(_)
rstrip(ts) ==
    IF ts # <<>> /\ ts[Len(ts)] = "/" THEN rstrip(SubSeq(ts, 1, Len(ts) - 1)) ELSE ts

RECURSIVE lstrip(_)
lstrip(ts) == IF ts # <<>> /\ Head(ts) = "/" THEN lstrip(Tail(ts)) ELSE ts

strip(ts) == lstrip(rstrip(ts))

\* ------------------------------------------------------- the constants
DEFAULT_IGNORED_NAMES == {".venv", "venv"}

THIRD_PARTY_MARKERS == {"site-packages", "dist-packages"}

\* -------------------------------------------------------- load_gitignore
\* A line of a .gitignore is a sequence of tokens: names, "/" and "#".
load_gitignore(e, root_dir) ==
    LET found == {g \in e.gitignore : g.dir = root_dir}
        lines == IF found = {} THEN <<>> ELSE (CHOOSE g \in found : TRUE).lines
        kept  == SelectSeq(lines, LAMBDA line : line # <<>> /\ Head(line) # "#")
    IN  {rstrip(kept[i]) : i \in 1..Len(kept)}

\* ------------------------------------------------------------ predicates
_is_within_project(q, root) == IsPrefix(root, q)

\* A marker test that finds nothing.
_path_has_no_marker(q) == FALSE

_path_has_third_party_marker(q) ==
    \E marker \in THIRD_PARTY_MARKERS : marker \in SeqToSet(q)

\* An _is_ignored without its `in parts` test.
_is_ignored_by_prefix(relative_path, ignored) ==
    IF ignored = {} THEN FALSE
    ELSE \E pattern \in ignored :
            LET pattern_normalized == strip(pattern)
            IN  /\ pattern_normalized # <<>>
                /\ \/ Joined(relative_path) = pattern_normalized
                   \/ IsPrefix(Append(pattern_normalized, "/"), Joined(relative_path))

\* _is_ignored: relative_path comes as its components (normalized.split("/")).
_is_ignored(relative_path, ignored) ==
    IF ignored = {} THEN FALSE
    ELSE \E pattern \in ignored :
            LET pattern_normalized == strip(pattern)
            IN  /\ pattern_normalized # <<>>
                /\ \/ Joined(relative_path) = pattern_normalized
                   \/ IsPrefix(Append(pattern_normalized, "/"), Joined(relative_path))
                   \/ /\ Len(pattern_normalized) = 1
                      /\ pattern_normalized[1] \in SeqToSet(relative_path)

_is_ignored_dir(entry, rel_root, current_root, root, ignored) ==
    LET dir_path == Append(current_root, entry)
        rel_path == Append(rel_root, entry)
    IN  \/ _path_has_third_party_marker(dir_path)
        \/ ~_is_within_project(dir_path, root)
        \/ _is_ignored(rel_path, ignored)

\* _discover_project_root: up from start to the first directory that holds
\* a marker; start itself if none does.
RECURSIVE discover_from(_, _, _)
discover_from(e, start, current) ==
    IF current \in e.markers THEN current
    ELSE IF current = <<>> THEN start
    ELSE discover_from(e, start, SubSeq(current, 1, Len(current) - 1))

_discover_project_root(e, start) == discover_from(e, start, start)

_build_ignored_patterns(e, root, respect_gitignore) ==
    {<<n>> : n \in DEFAULT_IGNORED_NAMES}
        \cup (IF respect_gitignore THEN load_gitignore(e, root) ELSE {})

\* ------------------------------------------------------- _scan_directory
\* One call after another: an exception of the first ends both.
Then(a, b) ==
    IF a.raised # "" THEN a
    ELSE IF b.raised # "" THEN Raised(b.raised)
    ELSE Returned(a.violations \o b.violations)

Listed(S) == SelectSeq(NameOrder, LAMBDA n : n \in S)

\* The loop over `files` of one directory.
RECURSIVE scan_files(_, _, _, _, _, _)
scan_files(e, root, effective_ignored, rel_root, root_path, files) ==
    IF files = <<>> THEN Returned(<<>>)
    ELSE LET file_name == Head(files)
             file_path == Append(root_path, file_name)
             rel_path  == Append(rel_root, file_name)
             here == IF ~endswith(file_name, DotPy) THEN Returned(<<>>)
                     ELSE IF \/ _path_has_third_party_marker(file_path)
                             \/ ~_is_within_project(file_path, root)
                             \/ _is_ignored(rel_path, effective_ignored)
                          THEN Returned(<<>>)
                     ELSE analyze_file(file_path, FileAt(e, file_path).src)
         IN  Then(here, scan_files(e, root, effective_ignored, rel_root,
                                   root_path, Tail(files)))

\* os.walk from root_path, top down: the body of the loop for root_path,
\* then the walk of each directory left in `dirs`.
RECURSIVE os_walk(_, _, _, _, _)
RECURSIVE os_walk_each(_, _, _, _, _, _)
os_walk(e, root, ignored, respect_gitignore, root_path) ==
    IF ~_is_within_project(root_path, root) THEN Returned(<<>>)
    ELSE IF _path_has_third_party_marker(root_path) THEN Returned(<<>>)
    ELSE LET additional == IF respect_gitignore THEN load_gitignore(e, root_path) ELSE {}
             effective_ignored == ignored \cup additional
             rel == relpath(root_path, root)
             rel_root == IF rel = <<".">> THEN <<>> ELSE rel
             subdirs == Listed({n \in DirNames : Append(root_path, n) \in Dirs})
             dirs == SelectSeq(subdirs, LAMBDA d :
                        ~_is_ignored_dir(d, rel_root, root_path, root, effective_ignored))
             files == Listed({f.name : f \in {x \in e.files : x.dir = root_path}})
         IN  Then(scan_files(e, root, effective_ignored, rel_root, root_path, files),
                  os_walk_each(e, root, ignored, respect_gitignore, root_path, dirs))

os_walk_each(e, root, ignored, respect_gitignore, root_path, dirs) ==
    IF dirs = <<>> THEN Returned(<<>>)
    ELSE Then(os_walk(e, root, ignored, respect_gitignore, Append(root_path, Head(dirs))),
              os_walk_each(e, root, ignored, respect_gitignore, root_path, Tail(dirs)))

_scan_directory(e, directory, root, ignored, respect_gitignore) ==
    os_walk(e, root, ignored, respect_gitignore, directory)

\* ------------------------------------------------------------ scan_paths
\* The branch of scan_paths for a directory.
scan_dir_arg(e, root, ignored, respect_gitignore, resolved_path) ==
    IF _is_ignored(name(resolved_path), ignored) THEN Returned(<<>>)
    ELSE _scan_directory(e, resolved_path, root, ignored, respect_gitignore)

\* The branch for a file that forgets the `not` of its test.
scan_file_arg_inverted(e, root, ignored, resolved_path) ==
    IF _is_ignored(relpath(resolved_path, root), ignored)
    THEN analyze_file(resolved_path, FileAt(e, resolved_path).src)
    ELSE Returned(<<>>)

\* The branch of scan_paths for a file with the suffix .py.
scan_file_arg(e, root, ignored, resolved_path) ==
    IF ~_is_ignored(relpath(resolved_path, root), ignored)
    THEN analyze_file(resolved_path, FileAt(e, resolved_path).src)
    ELSE Returned(<<>>)

\* A main that returns 0 whatever was found.
main_returns_zero(vs) == 0

\* main: 1 if the scan found a violation, 0 if not.
main_returns(vs) == IF vs # <<>> THEN 1 ELSE 0

\* ---------------------------------------------------------- the scan runs
BadProgram ==
    << ModuleNode,
       [kind |-> "Assign", id |-> "", ctx |-> "", parent |-> 1, lineno |-> 1],
       [kind |-> "Name", id |-> "A", ctx |-> "Store", parent |-> 2, lineno |-> 1],
       [kind |-> "Other", id |-> "", ctx |-> "", parent |-> 1, lineno |-> 2],
       [kind |-> "For", id |-> "", ctx |-> "", parent |-> 4, lineno |-> 3],
       [kind |-> "Other", id |-> "", ctx |-> "", parent |-> 5, lineno |-> 4],
       [kind |-> "Name", id |-> "A", ctx |-> "Load", parent |-> 6, lineno |-> 4] >>

CleanProgram ==
    << ModuleNode,
       [kind |-> "Assign", id |-> "", ctx |-> "", parent |-> 1, lineno |-> 1],
       [kind |-> "Name", id |-> "A", ctx |-> "Store", parent |-> 2, lineno |-> 1],
       [kind |-> "Other", id |-> "", ctx |-> "", parent |-> 1, lineno |-> 2],
       [kind |-> "Name", id |-> "A", ctx |-> "Load", parent |-> 4, lineno |-> 3],
       [kind |-> "For", id |-> "", ctx |-> "", parent |-> 4, lineno |-> 4] >>

FileSources ==
    {[status |-> "ok", tree |-> BadProgram], [status |-> "ok", tree |-> CleanProgram],
     [status |-> "OSError", tree |-> <<>>], [status |-> "SyntaxError", tree |-> <<>>]}

\* A file with a violation that every file system of the model holds.
MainFile == [dir |-> <<"proj">>, name |-> "main.py",
             src |-> [status |-> "ok", tree |-> BadProgram]]

\* Where the scan is started and which directories hold a project marker.
Workdirs ==
    {[cwd |-> <<>>, markers |-> {}],
     [cwd |-> <<"proj">>, markers |-> {}],
     [cwd |-> <<"proj">>, markers |-> {<<>>}],
     [cwd |-> <<"proj">>, markers |-> {<<"proj">>}]}

\* The .gitignore files: none, one in proj, one in the root.
Gitignores ==
    {{},
     {[dir |-> <<"proj">>, lines |-> <<<<"#", "app.py">>, <<>>, <<"app.py">>>>]},
     {[dir |-> <<>>, lines |-> <<<<"proj", "/">>>>]}}

Absolute(q) == [absolute |-> TRUE, parts |-> q]

\* Path(".")
Dot == [absolute |-> FALSE, parts |-> <<>>]

\* A path that does not exist.
Missing == <<"missing">>

ArgLists(C) == UNION {[1..k -> C] : k \in 0..MaxArgs}

NoFileRun ==
    /\ source = [status |-> "SyntaxError", tree |-> <<>>]
    /\ globals_defined = {}
    /\ violations = <<>>
    /\ reported = <<>>
    /\ globals_ = <<>>
    /\ result = <<>>

InitScan ==
    /\ pc = "start"
    /\ NoFileRun
    /\ \E d \in Dirs, n \in FileNames, src \in FileSources,
          w \in Workdirs, gi \in Gitignores :
          /\ env = [files |-> {[dir |-> d, name |-> n, src |-> src], MainFile},
                    markers |-> w.markers, gitignore |-> gi, cwd |-> w.cwd]
          /\ \E ps \in ArgLists({Absolute(Append(d, n)), Absolute(d),
                                Absolute(Missing)}),
                ng \in (IF gi = {} THEN {FALSE} ELSE BOOLEAN) :
                argv = [paths |-> ps, no_gitignore |-> ng]
    /\ paths = <<>>
    /\ project_root = <<>>
    /\ ignored_patterns = {}
    /\ idx = 0
    /\ scan_violations = <<>>
    /\ added = <<>>
    /\ exit_code = -1

\* main up to the loop of scan_paths: the default path, the project root
\* and the ignore patterns.
Main ==
    /\ pc = "start"
    /\ paths' = IF argv.paths = <<>> THEN <<Dot>> ELSE argv.paths
    /\ project_root' = _discover_project_root(env, env.cwd)
    /\ ignored_patterns' =
           _build_ignored_patterns(env, _discover_project_root(env, env.cwd),
                                   ~argv.no_gitignore)
    /\ idx' = 1
    /\ pc' = "loop"
    /\ UNCHANGED <<file_vars, env, argv, scan_violations, added, exit_code>>

AtPath == pc = "loop" /\ idx <= Len(paths)

resolved_path == resolve(env, paths[idx])

\* The end of one turn of the loop: r is what the turn's call gave.
Turn(r) ==
    /\ IF r.raised # ""
       THEN pc' = "raised" /\ UNCHANGED <<scan_violations, added>>
       ELSE /\ pc' = "loop"
            /\ scan_violations' = scan_violations \o r.violations
            /\ added' = Append(added, r.violations)
    /\ idx' = idx + 1
    /\ UNCHANGED <<file_vars, env, argv, paths, project_root, ignored_patterns, exit_code>>

\* if not path.exists(): continue
SkipMissing ==
    /\ AtPath
    /\ ~exists(env, resolve(env, paths[idx]))
    /\ Turn(Returned(<<>>))

\* if not _is_within_project(resolved_path, project_root): continue
SkipOutsideProject ==
    /\ AtPath
    /\ exists(env, resolved_path)
    /\ ~_is_within_project(resolved_path, project_root)
    /\ Turn(Returned(<<>>))

\* if _path_has_third_party_marker(resolved_path): continue
SkipThirdParty ==
    /\ AtPath
    /\ exists(env, resolved_path)
    /\ _is_within_project(resolved_path, project_root)
    /\ _path_has_third_party_marker(resolved_path)
    /\ Turn(Returned(<<>>))

Scannable ==
    /\ AtPath
    /\ exists(env, resolved_path)
    /\ _is_within_project(resolved_path, project_root)
    /\ ~_path_has_third_party_marker(resolved_path)

\* if resolved_path.is_dir(): ...
ScanDirectoryArg ==
    /\ Scannable
    /\ is_dir(env, resolved_path)
    /\ Turn(scan_dir_arg(env, project_root, ignored_patterns, ~argv.no_gitignore,
                         resolved_path))

\* elif resolved_path.is_file() and resolved_path.suffix == ".py": ...
ScanFileArg ==
    /\ Scannable
    /\ ~is_dir(env, resolved_path)
    /\ is_file(env, resolved_path)
    /\ suffix(resolved_path[Len(resolved_path)]) = DotPy
    /\ Turn(scan_file_arg(env, project_root, ignored_patterns, resolved_path))

\* a file with another suffix: neither branch
SkipOtherFile ==
    /\ Scannable
    /\ ~is_dir(env, resolved_path)
    /\ ~(is_file(env, resolved_path) /\ suffix(resolved_path[Len(resolved_path)]) = DotPy)
    /\ Turn(Returned(<<>>))

\* return violations
Return ==
    /\ pc = "loop"
    /\ idx > Len(paths)
    /\ pc' = "returned"
    /\ UNCHANGED <<file_vars, scan_vars>>

\* main after the scan: its return value (what it prints is not kept).
Exit ==
    /\ pc = "returned"
    /\ exit_code' = main_returns(scan_violations)
    /\ pc' = "exited"
    /\ UNCHANGED <<file_vars, env, argv, paths, project_root, ignored_patterns, idx,
                   scan_violations, added>>

NextScan ==
    \/ Main
    \/ SkipMissing
    \/ SkipOutsideProject
    \/ SkipThirdParty
    \/ ScanDirectoryArg
    \/ ScanFileArg
    \/ SkipOtherFile
    \/ Return
    \/ Exit

SpecScan == InitScan /\ [][NextScan]_vars

\* ============================================================ the claims
Tree == source.tree

Nodes == 1..Len(source.tree)

Checked == pc \in {"visited", "analyzed"} /\ source.status = "ok"

IsLoad(c) == Tree[c].kind = "Name" /\ Tree[c].ctx = "Load"

ProperAncestors(c) == AncestorsOrSelf(Tree, Tree[c].parent)

\* c lies in the subtree of a for, a while or a list/set/dict comprehension.
InsideLoop(c) == \E a \in ProperAncestors(c) : Tree[a].kind \in LoopKinds

\* A read of a name of globals_defined inside a loop or comprehension.
LoopRead(c) == IsLoad(c) /\ Tree[c].id \in globals_defined /\ InsideLoop(c)

Pair(c) == <<Tree[c].id, Tree[c].lineno>>

\* C1: every read of a global inside a for, a while or a list/set/dict
\* comprehension gives at least one violation with the global's name and
\* the line of the read, from the checker and from analyze_file.
C1_LoopReadsReported ==
    Checked =>
        \A c \in Nodes :
            LoopRead(c) =>
                /\ \E i \in 1..Len(violations) : violations[i] = Pair(c)
                /\ pc = "analyzed" =>
                      \E i \in 1..Len(result) :
                          result[i] = Violation(FilePath, Tree[c].lineno, Tree[c].id)

\* A global read under each of the five loop classes, and reported.
C1_Witness ==
    /\ Checked
    /\ \E c \in Nodes :
          /\ LoopRead(c)
          /\ Tree[Tree[c].parent].kind = "While"
          /\ \E i \in 1..Len(violations) : violations[i] = Pair(c)

\* C2: every violation stands for a Name node in Load context whose id is
\* in the set of globals and that lies inside a loop or comprehension; what
\* analyze_file returns is that list, violation by violation.  So a global
\* read only outside the loops, or only stored inside them, gives none.
C2_OnlyLoopReadsReported ==
    Checked =>
        /\ \A i \in 1..Len(violations) :
              \E c \in Nodes : LoopRead(c) /\ violations[i] = Pair(c)
        /\ pc = "analyzed" =>
              result = [i \in 1..Len(violations) |->
                           Violation(FilePath, violations[i][2], violations[i][1])]

\* A global read outside the loops and stored inside one: no violation.
C2_Witness ==
    /\ Checked
    /\ "A" \in globals_defined
    /\ \E c \in Nodes : IsLoad(c) /\ Tree[c].id = "A" /\ ~InsideLoop(c)
    /\ \E c \in Nodes : /\ Tree[c].kind = "Name" /\ Tree[c].ctx = "Store"
                         /\ Tree[c].id = "A" /\ InsideLoop(c)
    /\ violations = <<>>

\* ------------------------------------------------------------- G002
\* The class whose body holds c: the nearest ClassDef above it, 0 if none.
ClassOf(c) ==
    LET cs == {a \in ProperAncestors(c) : Tree[a].kind = "ClassDef"}
    IN  IF cs = {} THEN 0 ELSE CHOOSE a \in cs : \A b \in cs : b <= a

LoadsOf(X) == {c \in Nodes : IsLoad(c) /\ Tree[c].id = X}

UsedClasses(X) == {ClassOf(c) : c \in LoadsOf(X)} \ {0}

UsedOutsideClasses(X) == \E c \in LoadsOf(X) : ClassOf(c) = 0

\* The first module-level assignment target that binds X.
BindingNode(X) ==
    CHOOSE c \in Nodes :
        /\ Tree[c].kind = "Name" /\ Tree[c].ctx = "Store" /\ Tree[c].id = X
        /\ Tree[c].parent # 0 /\ Tree[Tree[c].parent].kind = "Assign"
        /\ Tree[Tree[c].parent].parent = 1
        /\ \A d \in Nodes :
              (/\ Tree[d].kind = "Name" /\ Tree[d].ctx = "Store" /\ Tree[d].id = X
               /\ Tree[d].parent # 0 /\ Tree[Tree[d].parent].kind = "Assign"
               /\ Tree[Tree[d].parent].parent = 1) => c <= d

G002For(X) == {i \in 1..Len(result) :
                  format(result[i]).code = "G002" /\ result[i].variable = X}

\* C3: a global read in the body of exactly one class and nowhere outside a
\* class gives exactly one G002 violation, at the line of its module-level
\* assignment, whose message names the variable and the class.
C3_SingleClassGlobalReported ==
    pc = "analyzed" /\ source.status = "ok" =>
        \A X \in SeqToSet(globals_) :
            (Cardinality(UsedClasses(X)) = 1 /\ ~UsedOutsideClasses(X)) =>
                /\ Cardinality(G002For(X)) = 1
                /\ \A i \in G002For(X) :
                      /\ result[i].line = Tree[BindingNode(X)].lineno
                      /\ \E k \in 1..Len(format(result[i]).message) :
                            format(result[i]).message[k] = X
                      /\ \E k \in 1..Len(format(result[i]).message) :
                            \E cl \in UsedClasses(X) :
                                format(result[i]).message[k] = Tree[cl].id

RECURSIVE Ascending(_)
Ascending(S) ==
    IF S = {} THEN <<>>
    ELSE LET m == CHOOSE x \in S : \A y \in S : x <= y
         IN  <<m>> \o Ascending(S \ {m})

NoDuplicates(s) == \A i, j \in 1..Len(s) : s[i] = s[j] => i = j

IsModuleAssign(n) == Tree[n].kind = "Assign" /\ Tree[n].parent = 1

TargetsOf(n) == {c \in Nodes : Tree[c].parent = n /\ Tree[c].ctx = "Store"}

\* The names that are the plain-identifier target of a single-target
\* assignment directly in the module.
SingleTargetNames ==
    {Tree[c].id : c \in {d \in Nodes : /\ Tree[d].kind = "Name"
                                        /\ Tree[d].ctx = "Store"
                                        /\ Tree[d].parent # 0
                                        /\ IsModuleAssign(Tree[d].parent)
                                        /\ TargetsOf(Tree[d].parent) = {d}}}

\* C5 as stated: find_globals returns a duplicate-free list of exactly the
\* names bound by single-target assignments directly in the module.
C5_Stated ==
    pc = "found" =>
        NoDuplicates(globals_) /\ SeqToSet(globals_) = SingleTargetNames

\* The Name targets of the assignments directly in the module, in source
\* order.
ModuleNameTargets ==
    Ascending({c \in Nodes : /\ Tree[c].kind = "Name" /\ Tree[c].ctx = "Store"
                             /\ Tree[c].parent # 0
                             /\ IsModuleAssign(Tree[c].parent)})

\* C5 as amended: find_globals returns, in source order, one entry for
\* every plain-identifier target of every assignment directly in the
\* module, the targets of a chained assignment included and a name bound
\* twice listed twice; other targets and assignments in any block give
\* nothing.
C5_EveryModuleNameTarget ==
    pc = "found" =>
        globals_ = [i \in 1..Len(ModuleNameTargets) |-> Tree[ModuleNameTargets[i]].id]

\* A chained assignment in the module beside an assignment in a block.
C5_Witness ==
    /\ pc = "found"
    /\ globals_ = <<"A", "B">>
    /\ \E n \in Nodes : IsModuleAssign(n) /\ Cardinality(TargetsOf(n)) = 2

\* ------------------------------------------------------------- order
\* C10 as stated: of two reported references, the one that comes first in
\* pre-order is reported first.
C10_Stated ==
    Checked => \A i, j \in 1..Len(reported) : i < j => reported[i] <= reported[j]

Depth(c) == Cardinality(AncestorsOrSelf(Tree, c))

Subtree(n) == {c \in Nodes : n \in AncestorsOrSelf(Tree, c)}

\* The nodes of S by ascending key.
RECURSIVE ByKey(_, _)
ByKey(S, key) ==
    IF S = {} THEN <<>>
    ELSE LET m == CHOOSE x \in S : \A y \in S : key[x] <= key[y]
         IN  <<m>> \o ByKey(S \ {m}, key)

\* The loop reads under a loop node, level by level and left to right.
LevelOrderReads(n) ==
    ByKey({c \in Subtree(n) : LoopRead(c)},
          [c \in Nodes |-> Depth(c) * (Len(Tree) + 1) + c])

RECURSIVE Concat(_)
Concat(ss) == IF ss = <<>> THEN <<>> ELSE Head(ss) \o Concat(Tail(ss))

LoopNodes == Ascending({n \in Nodes : Tree[n].kind \in LoopKinds})

ExpectedReads == Concat([k \in 1..Len(LoopNodes) |-> LevelOrderReads(LoopNodes[k])])

\* C10 as amended: the loop and comprehension nodes are taken in pre-order,
\* and each gives, when it is reached, the global reads of its whole subtree
\* level by level (breadth first), left to right within a level.
C10_LoopsInPreOrderReadsByLevel ==
    Checked => violations = [i \in 1..Len(ExpectedReads) |-> Pair(ExpectedReads[i])]

\* A deeper read that comes first in pre-order is reported after a
\* shallower one.
C10_Witness ==
    /\ Checked
    /\ \E i, j \in 1..Len(reported) : i < j /\ reported[i] > reported[j]
    /\ violations = [i \in 1..Len(ExpectedReads) |-> Pair(ExpectedReads[i])]

\* -------------------------------------------------------------- the scan
Scanned == pc \in {"returned", "exited"}

Respect == ~argv.no_gitignore

\* What one path of the list gives, whichever branch takes it.
PathResult(e, root, ignored, raw) ==
    LET q == resolve(e, raw)
    IN  IF ~exists(e, q) \/ ~_is_within_project(q, root)
            \/ _path_has_third_party_marker(q)
        THEN Returned(<<>>)
        ELSE IF is_dir(e, q) THEN scan_dir_arg(e, root, ignored, Respect, q)
        ELSE IF is_file(e, q) /\ suffix(q[Len(q)]) = DotPy
             THEN scan_file_arg(e, root, ignored, q)
        ELSE Returned(<<>>)

RECURSIVE ScanFrom(_, _, _, _)
ScanFrom(e, root, ignored, ps) ==
    IF ps = <<>> THEN Returned(<<>>)
    ELSE Then(PathResult(e, root, ignored, Head(ps)),
              ScanFrom(e, root, ignored, Tail(ps)))

\* The scan of the paths ps over the file system e, from its start.
ScanOf(e, ps) ==
    LET root == _discover_project_root(e, e.cwd)
    IN  ScanFrom(e, root, _build_ignored_patterns(e, root, Respect), ps)

Failing(f) == f.src.status \in {"OSError", "SyntaxError"}

WithoutFailing(e) == [e EXCEPT !.files = {f \in e.files : ~Failing(f)}]

\* C6: a file that cannot be read or parsed gives no violation and does not
\* end the scan: no exception leaves it, every path of the list has its
\* turn, and what the scan returns is what it returns with the failing files
\* absent.
C6_FailingFilesSkipped ==
    /\ pc # "raised"
    /\ pc = "loop" => Len(added) = idx - 1 /\ idx <= Len(paths) + 1
    /\ Scanned =>
          /\ Len(added) = Len(paths)
          /\ \A i \in 1..Len(scan_violations) :
                \A f \in env.files : Failing(f) => scan_violations[i].path # PathOf(f)
          /\ scan_violations = ScanOf(WithoutFailing(env), paths).violations

\* An unparsable app.py is listed before main.py in the scanned directory,
\* and main.py's violation is returned.
C6_Witness ==
    /\ Scanned
    /\ [dir |-> <<"proj">>, name |-> "app.py",
        src |-> [status |-> "SyntaxError", tree |-> <<>>]] \in env.files
    /\ env.gitignore = {}
    /\ paths = <<Absolute(<<"proj">>)>>
    /\ scan_violations = <<Violation(<<"proj", "main.py">>, 4, "A")>>

HasMarker(q) == \E c \in {"site-packages", "dist-packages"} : c \in SeqToSet(q)

HasVenv(q) == \E c \in {".venv", "venv"} : c \in SeqToSet(q)

\* The violations of a list that name the path q.
ForPath(vs, q) == SelectSeq(vs, LAMBDA v : v.path = q)

DirArgs == {i \in 1..Len(added) : is_dir(env, resolve(env, paths[i]))}

Below(D, f) == IsPrefix(D, f.dir)

\* No violation for a file with a third-party or virtual-environment
\* component below the given directory.
C7_NoneFromThirdParty ==
    \A i \in DirArgs :
        \A k \in 1..Len(added[i]) :
            LET below == relpath(added[i][k].path, resolve(env, paths[i]))
            IN  ~HasMarker(below) /\ ~HasVenv(below)

\* C7 as stated, for file systems without any .gitignore: under a given
\* directory no file with a site-packages, dist-packages, .venv or venv
\* component gives a violation, and every .py file without such a component
\* gives its violations.
C7_Stated ==
    Scanned /\ env.gitignore = {} =>
        /\ C7_NoneFromThirdParty
        /\ \A i \in DirArgs :
              \A f \in env.files :
                  (/\ Below(resolve(env, paths[i]), f)
                   /\ endswith(f.name, DotPy)
                   /\ ~HasMarker(PathOf(f)) /\ ~HasVenv(PathOf(f))) =>
                      ForPath(added[i], PathOf(f))
                          = analyze_file(PathOf(f), f.src).violations

\* The patterns in effect where the entries of directory d are listed.
EffectiveAt(d) ==
    ignored_patterns \cup (IF Respect THEN load_gitignore(env, d) ELSE {})

RelToRoot(q) == LET rel == relpath(q, project_root)
                IN  IF rel = <<".">> THEN <<>> ELSE rel

\* Entry q is left out where its directory is listed.
LeftOut(q) == _is_ignored(RelToRoot(q), EffectiveAt(SubSeq(q, 1, Len(q) - 1)))

\* The directories from D (not included) down to d (included).
Between(D, d) == {SubSeq(d, 1, k) : k \in (Len(D) + 1)..Len(d)}

\* C7 as amended: no violation for a file with such a component below the
\* directory; and a .py file below it gives its violations if the directory
\* is within the project root, the file's path has no site-packages or
\* dist-packages component, the directory's name matches no project-level
\* pattern, and neither the file nor a directory between the two is matched
\* by the patterns in effect where it is listed.
C7_WithinProjectAndNotLeftOut ==
    Scanned =>
        /\ C7_NoneFromThirdParty
        /\ \A i \in DirArgs :
              LET D == resolve(env, paths[i])
              IN  \A f \in env.files :
                      (/\ Below(D, f)
                       /\ endswith(f.name, DotPy)
                       /\ _is_within_project(D, project_root)
                       /\ ~HasMarker(PathOf(f))
                       /\ ~_is_ignored(name(D), ignored_patterns)
                       /\ ~LeftOut(PathOf(f))
                       /\ \A x \in Between(D, f.dir) : ~LeftOut(x)) =>
                          ForPath(added[i], PathOf(f))
                              = analyze_file(PathOf(f), f.src).violations

\* A directory is scanned that holds main.py and, in a site-packages folder
\* below it, another file with a violation: only main.py's is returned.
C7_Witness ==
    /\ Scanned
    /\ [dir |-> <<"proj", "site-packages">>, name |-> "app.py",
        src |-> [status |-> "ok", tree |-> BadProgram]] \in env.files
    /\ Len(paths) = 1 /\ resolve(env, paths[1]) = <<"proj">>
    /\ added = <<<<Violation(<<"proj", "main.py">>, 4, "A")>>>>

FileArgs == {i \in 1..Len(added) : is_file(env, resolve(env, paths[i]))}

LastOf(q) == q[Len(q)]

\* C8 as stated: for a path argument that is a regular file whose name ends
\* in .py, scan_paths returns what analyze_file returns for it.
C8_Stated ==
    \A i \in FileArgs :
        LET q == resolve(env, paths[i])
        IN  endswith(LastOf(q), DotPy) =>
                added[i] = analyze_file(q, FileAt(env, q).src).violations

\* C8 as amended: so it is for a file with the suffix .py (pathlib's: a
\* name that is only ".py" has none) that is within the project root, has
\* no site-packages or dist-packages component, and whose path from the
\* project root matches no project-level ignore pattern.
C8_FileArgAnalyzed ==
    \A i \in FileArgs :
        LET q == resolve(env, paths[i])
        IN  (/\ suffix(LastOf(q)) = DotPy
             /\ _is_within_project(q, project_root)
             /\ ~HasMarker(q)
             /\ ~_is_ignored(relpath(q, project_root), ignored_patterns)) =>
                added[i] = analyze_file(q, FileAt(env, q).src).violations

\* A .py file given as a path has been analysed and its violation returned.
C8_Witness ==
    /\ \E i \in FileArgs :
          /\ suffix(LastOf(resolve(env, paths[i]))) = DotPy
          /\ added[i] # <<>>
          /\ added[i] = analyze_file(resolve(env, paths[i]),
                                     FileAt(env, resolve(env, paths[i])).src).violations

Existing(ps) == SelectSeq(ps, LAMBDA raw : exists(env, resolve(env, raw)))

\* C9: main returns 0 exactly when the scan found no violation and 1 exactly
\* when it found one; a path that does not exist adds nothing, raises
\* nothing, and the exit code is the one of the run without it.
C9_ExitCode ==
    /\ pc # "raised"
    /\ \A i \in 1..Len(added) :
          ~exists(env, resolve(env, paths[i])) => added[i] = <<>>
    /\ pc = "exited" =>
          /\ exit_code = 0 <=> scan_violations = <<>>
          /\ exit_code = 1 <=> scan_violations # <<>>
          /\ Existing(paths) # <<>> =>
                exit_code = main_returns(ScanOf(env, Existing(paths)).violations)

\* A run over a missing path and a file with a violation ends with 1.
C9_Witness ==
    /\ pc = "exited"
    /\ Len(paths) = 2
    /\ ~exists(env, resolve(env, paths[1]))
    /\ added[2] # <<>>
    /\ exit_code = 1

\* ------------------------------------------------- nesting and counting
\* How many times the node c was reported.
Times(c) == Cardinality({i \in 1..Len(reported) : reported[i] = c})

IsLoop(n) == Tree[n].kind \in LoopKinds

\* C11: a read of a global is reported at most once for a file, however
\* many loops and comprehensions enclose it.
C11_ReportedAtMostOnce ==
    Checked => \A c \in Nodes : IsLoad(c) => Times(c) <= 1

\* A loop or comprehension that is in no other and holds no other.
SingleLoop(n) ==
    /\ IsLoop(n)
    /\ ~InsideLoop(n)
    /\ \A c \in Subtree(n) \ {n} : ~IsLoop(c)

\* The reads of the name g under the node n.
Occurrences(n, g) == {c \in Subtree(n) : IsLoad(c) /\ Tree[c].id = g}

\* C12: for a loop or comprehension that is not nested, a global read at n
\* places under it gives exactly n violations, one for each read with the
\* read's line, also when two reads share a line; analyze_file returns one
\* Violation for each.
C12_OnePerOccurrence ==
    Checked =>
        /\ Len(violations) = Len(reported)
        /\ \A n \in Nodes, g \in globals_defined :
              SingleLoop(n) =>
                  /\ \A c \in Occurrences(n, g) : Times(c) = 1
                  /\ Cardinality({i \in 1..Len(violations) :
                                     i <= Len(reported) /\ reported[i] \in Occurrences(n, g)})
                        = Cardinality(Occurrences(n, g))
                  /\ \A i \in 1..Len(violations) :
                        (i <= Len(reported) /\ reported[i] \in Occurrences(n, g)) =>
                            violations[i] = Pair(reported[i])
        /\ pc = "analyzed" =>
              /\ Len(result) = Len(violations)
              /\ \A i \in 1..Len(result) :
                    result[i] = Violation(FilePath, violations[i][2], violations[i][1])

\* Two reads of one global on one line of a loop that is not nested, and two
\* violations for them.
C12_Witness ==
    /\ Checked
    /\ \E n \in Nodes, g \in globals_defined :
          /\ SingleLoop(n)
          /\ \E c, d \in Occurrences(n, g) :
                /\ c # d
                /\ Tree[c].lineno = Tree[d].lineno
                /\ Times(c) = 1 /\ Times(d) = 1
          /\ Len(violations) = Cardinality(Occurrences(n, g))
          /\ Len(violations) >= 2

\* C13: a read of a global inside a generator expression that no loop and no
\* other comprehension encloses gives a violation at the line of the read.
C13_GeneratorExpReported ==
    Checked =>
        \A c \in Nodes :
            (/\ IsLoad(c)
             /\ Tree[c].id \in globals_defined
             /\ \E a \in ProperAncestors(c) : Tree[a].kind = "GeneratorExp"
             /\ ~InsideLoop(c)) =>
                \E i \in 1..Len(violations) : violations[i] = Pair(c)

====
